---- MODULE Spec2Model ----
(***************************************************************************)
(* calendaraid-plus: the store (tables, row level security policies,       *)
(* constraints, cascades and triggers of the migrations) and the client    *)
(* components that write to it (EventDetails, EventDialog, Index).         *)
(*                                                                         *)
(* A store request is one atomic step, as one PostgREST statement is one   *)
(* transaction.  A client handler is split at each await: the click that   *)
(* starts it is one step and every request it awaits is another, so that   *)
(* handlers of different sessions interleave as the network lets them.     *)
(***************************************************************************)
EXTENDS Integers, FiniteSets, Sequences, TLC

(***************************************************************************)
(* Bounds of the model.                                                    *)
(***************************************************************************)
Users == {"c", "a", "b"}            \* the identities a behaviour may create
EventIds == {"e1", "e2"}            \* primary keys available to events
MaxCap == 2                         \* largest max_attendees a writer supplies
MaxGen == 4                         \* registration keys available to one user

MaxTime == 3                        \* latest reading of the store's clock
MaxNotifs == 2                      \* primary keys available to notifications
MaxSessions == 2                    \* sessions one identity is given in a row
MaxRefresh == 3                     \* largest refreshTrigger a session counts to

NoLimit == -1                       \* max_attendees IS NULL
Unset == -2                         \* a column the request leaves out
NoUser == "nobody"
NoEventId == "e0"
NoEvent == [id |-> NoEventId, created_by |-> NoUser, is_public |-> FALSE,
            max_attendees |-> NoLimit, updated_at |-> 0]
NoRegId == <<NoUser, 0>>
NoReg == [id |-> NoRegId, event_id |-> NoEventId, user_id |-> NoUser, status |-> "none"]

Caps == {NoLimit} \cup (1..MaxCap)
RegIds == {<<u, k>> : u \in Users, k \in 1..MaxGen}
Statuses == {"registered", "cancelled", "waitlist"}
NullStatus == "null"                \* status is a nullable column: SQL NULL
DefaultPrefs == "email,no-push,[24,1]"
Prefs == {DefaultPrefs, "edited"}
Times == 0..MaxTime
NotificationTypes == {"reminder", "change", "cancellation"}
NoTime == -1                        \* sent_at IS NULL
NotifIds == 1..MaxNotifs
Anon == "anon"                      \* a caller without a session: auth.uid() IS NULL

VARIABLES
  users,              \* auth.users: the identities that exist
  profiles,           \* public.profiles
  events,             \* public.events
  regs,               \* public.event_registrations
  notifs,             \* public.event_notifications
  now,                \* now(): the store's clock
  resp,               \* what the latest store request returned to its caller
  selectedEvent,      \* Index.selectedEvent, the event prop of EventDetails
  isOpen,             \* Index.showEventDetails
  registration,       \* EventDetails.registration
  registrationCount,  \* EventDetails.registrationCount
  loading,            \* EventDetails.loading
  pending,            \* the handler of EventDetails awaiting its request
  fetches,            \* the fetchRegistrationInfo calls in flight
  toast,              \* the toast shown last, and the session it was shown in
  refreshTrigger,     \* Index.refreshTrigger
  eventDialog,        \* EventDialog and the state of Index it is given
  notificationSettings, \* NotificationSettings and the state of Index it is given
  auth,               \* Index.user, session, loading, and supabase.auth behind them
  reminder_times      \* NotificationSettings.preferences.reminder_times, in quarters of an hour

store == <<users, profiles, events, regs, notifs, now, resp>>
panels == <<refreshTrigger, eventDialog, notificationSettings, auth, reminder_times>>
client == <<selectedEvent, isOpen, registration, registrationCount, loading,
            pending, fetches, toast, refreshTrigger, eventDialog, notificationSettings,
            auth, reminder_times>>
vars == <<users, profiles, events, regs, notifs, now, resp, selectedEvent, isOpen,
          registration, registrationCount, loading, pending, fetches, toast,
          refreshTrigger, eventDialog, notificationSettings, auth, reminder_times>>

(***************************************************************************)
(* Row level security policies.  The policies of one table and command are *)
(* permissive: a row passes when any of them does.  An UPDATE policy       *)
(* without WITH CHECK applies its USING expression to the new row too.     *)
(***************************************************************************)
\* Faulty variants, used to test that the properties below depend on the
\* definitions they are variants of: each precedes the definition it alters.
EventsSelectPolicy_AnyCaller(uid, row) ==
  \/ row.is_public = TRUE
  \/ uid \in Users

EventsSelectPolicy(uid, row) ==
  \/ row.is_public = TRUE
  \/ uid = row.created_by

EventsInsertCheck(uid, row) == uid = row.created_by

EventsUpdateUsing(uid, row) == uid = row.created_by

EventsDeleteUsing_Any(uid, row) == TRUE

EventsDeleteUsing(uid, row) == uid = row.created_by

\* The caller's view of events: also what a policy's subquery on events sees.
SelectEvents(uid) == {e \in events : EventsSelectPolicy(uid, e)}

RegsSelectPolicy_OwnOnly(uid, row) == uid = row.user_id

RegsSelectPolicy(uid, row) ==
  \/ uid = row.user_id
  \/ \E e \in SelectEvents(uid) : e.id = row.event_id /\ e.created_by = uid

RegsInsertCheck_Any(uid, row) == TRUE

RegsInsertCheck(uid, row) == uid = row.user_id

RegsUpdateUsing(uid, row) == uid = row.user_id

RegsDeleteUsing(uid, row) == uid = row.user_id

SelectRegs(uid) == {r \in regs : RegsSelectPolicy(uid, r)}

ProfilesSelectPolicy_Any(uid, row) == uid \in Users

ProfilesSelectPolicy(uid, row) == uid = row.user_id

ProfilesInsertCheck(uid, row) == uid = row.user_id

ProfilesUpdateUsing(uid, row) == uid = row.user_id

\* profiles has no DELETE policy: with row level security enabled no row passes.
ProfilesDeleteUsing(uid, row) == FALSE

SelectProfiles(uid) == {p \in profiles : ProfilesSelectPolicy(uid, p)}

NotifsSelectPolicy(uid, row) == uid = row.user_id

NotifsInsertCheck_Own(uid, row) == uid = row.user_id

\* WITH CHECK (true)
NotifsInsertCheck(uid, row) == TRUE

NotifsUpdateUsing_Own(uid, row) == uid = row.user_id

\* event_notifications has no UPDATE and no DELETE policy.
NotifsUpdateUsing(uid, row) == FALSE

NotifsDeleteUsing(uid, row) == FALSE

SelectNotifs(uid) == {n \in notifs : NotifsSelectPolicy(uid, n)}

(***************************************************************************)
(* Constraints.                                                            *)
(***************************************************************************)
\* UNIQUE(event_id, user_id) on event_registrations, for a row about to be
\* written over the rows `others`.
RegsUniqueOk_Off(others, row) == TRUE

RegsUniqueOk(others, row) ==
  \A r \in others : ~(r.event_id = row.event_id /\ r.user_id = row.user_id)

\* CHECK (status IN ('registered', 'cancelled', 'waitlist'))
\* A CHECK is violated only when its expression is false: on a NULL status
\* the expression is unknown and the row passes.
RegsStatusOk(row) == row.status = NullStatus \/ row.status \in Statuses

\* REFERENCES public.events(id), REFERENCES auth.users(id)
RegsFkOk(row) ==
  /\ \E e \in events : e.id = row.event_id
  /\ row.user_id \in users

\* CHECK (notification_type IN ('reminder', 'change', 'cancellation'))
NotifsTypeOk(row) == row.notification_type \in NotificationTypes

\* REFERENCES public.events(id), REFERENCES auth.users(id)
NotifsFkOk(row) ==
  /\ \E e \in events : e.id = row.event_id
  /\ row.user_id \in users

\* profiles.user_id UNIQUE
ProfilesUniqueOk(others, row) == \A p \in others : p.user_id # row.user_id

\* gen_random_uuid(): a key that no row holds and no client still remembers.
\* A registration's key is written <<user, k>> after the user_id of the row it
\* was generated for.
EventIdsInUse ==
  {e.id : e \in events} \cup {selectedEvent[u].id : u \in Users}
    \cup {pending[u].ev : u \in Users} \cup {f.ev : f \in fetches}

RegIdsInUse ==
  {r.id : r \in regs} \cup {registration[u].id : u \in Users}
    \cup {pending[u].reg : u \in Users}

FreshEventIds == EventIds \ EventIdsInUse

FreshRegIds(row) ==
  {i \in RegIds \ RegIdsInUse : i[1] = row.user_id}

NewEventId == CHOOSE i \in FreshEventIds : TRUE

NewRegId(row) ==
  CHOOSE i \in FreshRegIds(row) : \A j \in FreshRegIds(row) : i[2] <= j[2]

Response(uid, op, err, n) == [actor |-> uid, op |-> op, err |-> err, at |-> now]

(***************************************************************************)
(* Store requests.  Each is one statement run as the caller uid: the rows  *)
(* it may touch are those its policies let through, a row that fails a     *)
(* WITH CHECK or a constraint aborts the statement, and a statement that   *)
(* matches no row succeeds with nothing written.                           *)
(***************************************************************************)
EventsUpdateCheck(uid, row) == EventsUpdateUsing(uid, row)

RegsUpdateCheck(uid, row) == RegsUpdateUsing(uid, row)

ProfilesUpdateCheck(uid, row) == ProfilesUpdateUsing(uid, row)

\* A column's value in the row a request writes: the one the request supplies,
\* or `other` when the request leaves the column out.
Supplied(value, other) == IF value = Unset THEN other ELSE value

\* update_updated_at_column(): BEFORE UPDATE, FOR EACH ROW, on events and
\* on profiles.
update_updated_at_column(new) == [new EXCEPT !.updated_at = now]

\* supabase.from("events").insert([row]); id defaults to gen_random_uuid(),
\* updated_at to now()
InsertEvent(uid, row) ==
  /\ FreshEventIds # {}
  /\ LET new == [id |-> NewEventId, created_by |-> row.created_by,
                 is_public |-> row.is_public, max_attendees |-> row.max_attendees,
                 updated_at |-> Supplied(row.updated_at, now)]
         err == IF ~EventsInsertCheck(uid, new) THEN "rls"
                ELSE IF new.created_by \notin users THEN "fk"
                ELSE "none"
     IN /\ events' = IF err = "none" THEN events \cup {new} ELSE events
        /\ resp' = Response(uid, "insert_event", err, IF err = "none" THEN 1 ELSE 0)
  /\ UNCHANGED <<users, profiles, regs, notifs, now>>

\* supabase.from("events").update(row).eq("id", id)
UpdateEvent(uid, id, row) ==
  LET targets == {e \in SelectEvents(uid) : e.id = id /\ EventsUpdateUsing(uid, e)}
      news == {update_updated_at_column(
                 [id |-> id, created_by |-> row.created_by,
                  is_public |-> row.is_public, max_attendees |-> row.max_attendees,
                  updated_at |-> Supplied(row.updated_at, e.updated_at)]) : e \in targets}
      err == IF targets = {} THEN "none"
             ELSE IF \E new \in news : ~EventsUpdateCheck(uid, new) THEN "rls"
             ELSE IF \E new \in news : new.created_by \notin users THEN "fk"
             ELSE "none"
  IN /\ events' = IF targets # {} /\ err = "none"
                  THEN (events \ targets) \cup news ELSE events
     /\ resp' = Response(uid, "update_event", err,
                         IF err = "none" THEN Cardinality(targets) ELSE 0)
     /\ UNCHANGED <<users, profiles, regs, notifs, now>>

\* Faulty variant: the rows that reference the event are left behind.
DeleteEvent_NoCascade(uid, id) ==
  LET targets == {e \in SelectEvents(uid) : e.id = id /\ EventsDeleteUsing(uid, e)}
  IN /\ events' = events \ targets
     /\ resp' = Response(uid, "delete_event", "none", Cardinality(targets))
     /\ UNCHANGED <<users, profiles, regs, notifs, now>>

\* supabase.from("events").delete().eq("id", id); ON DELETE CASCADE
DeleteEvent(uid, id) ==
  LET targets == {e \in SelectEvents(uid) : e.id = id /\ EventsDeleteUsing(uid, e)}
      gone == {e.id : e \in targets}
  IN /\ events' = events \ targets
     /\ regs' = {r \in regs : r.event_id \notin gone}
     /\ notifs' = {n \in notifs : n.event_id \notin gone}
     /\ resp' = Response(uid, "delete_event", "none", Cardinality(targets))
     /\ UNCHANGED <<users, profiles, now>>

\* Faulty variant: the insert made conditional on the event having room.
RegInsertError_Capped(uid, rows, new) ==
  IF ~RegsInsertCheck(uid, new) THEN "rls"
  ELSE IF ~RegsStatusOk(new) THEN "check"
  ELSE IF ~RegsUniqueOk(rows, new) THEN "unique"
  ELSE IF ~RegsFkOk(new) THEN "fk"
  ELSE IF \E e \in events :
            /\ e.id = new.event_id
            /\ e.max_attendees # NoLimit
            /\ Cardinality({r \in rows : r.event_id = e.id /\ r.status = "registered"})
                 >= e.max_attendees
       THEN "full"
  ELSE "none"

\* What an INSERT of `new` into event_registrations holding `rows` fails with:
\* the policy's WITH CHECK, then the row's constraints, then the foreign keys.
\* Nothing compares the event's max_attendees with the rows it has.
RegInsertError(uid, rows, new) ==
  IF ~RegsInsertCheck(uid, new) THEN "rls"
  ELSE IF ~RegsStatusOk(new) THEN "check"
  ELSE IF ~RegsUniqueOk(rows, new) THEN "unique"
  ELSE IF ~RegsFkOk(new) THEN "fk"
  ELSE "none"

\* supabase.from("event_registrations").insert([row])
InsertRegistration(uid, row) ==
  /\ FreshRegIds(row) # {}
  /\ LET new == [id |-> NewRegId(row), event_id |-> row.event_id,
                 user_id |-> row.user_id, status |-> row.status]
         err == RegInsertError(uid, regs, new)
     IN /\ regs' = IF err = "none" THEN regs \cup {new} ELSE regs
        /\ resp' = Response(uid, "insert_reg", err, IF err = "none" THEN 1 ELSE 0)
  /\ UNCHANGED <<users, profiles, events, notifs, now>>

\* supabase.from("event_registrations").update(row).eq("id", id)
UpdateRegistration(uid, id, row) ==
  LET targets == {r \in SelectRegs(uid) : r.id = id /\ RegsUpdateUsing(uid, r)}
      new == [id |-> id, event_id |-> row.event_id,
              user_id |-> row.user_id, status |-> row.status]
      err == IF targets = {} THEN "none"
             ELSE IF ~RegsUpdateCheck(uid, new) THEN "rls"
             ELSE IF ~RegsStatusOk(new) THEN "check"
             ELSE IF ~RegsUniqueOk(regs \ targets, new) THEN "unique"
             ELSE IF ~RegsFkOk(new) THEN "fk"
             ELSE "none"
  IN /\ regs' = IF targets # {} /\ err = "none"
                THEN (regs \ targets) \cup {new} ELSE regs
     /\ resp' = Response(uid, "update_reg", err,
                         IF err = "none" THEN Cardinality(targets) ELSE 0)
     /\ UNCHANGED <<users, profiles, events, notifs, now>>

\* supabase.from("event_registrations").delete().eq("id", id)
DeleteRegistration(uid, id) ==
  LET targets == {r \in SelectRegs(uid) : r.id = id /\ RegsDeleteUsing(uid, r)}
  IN /\ regs' = regs \ targets
     /\ resp' = Response(uid, "delete_reg", "none", Cardinality(targets))
     /\ UNCHANGED <<users, profiles, events, notifs, now>>

\* supabase.from("profiles").insert([row])
InsertProfile(uid, row) ==
  LET err == IF ~ProfilesInsertCheck(uid, row) THEN "rls"
             ELSE IF ~ProfilesUniqueOk(profiles, row) THEN "unique"
             ELSE IF row.user_id \notin users THEN "fk"
             ELSE "none"
      new == [row EXCEPT !.updated_at = Supplied(row.updated_at, now)]
  IN /\ profiles' = IF err = "none" THEN profiles \cup {new} ELSE profiles
     /\ resp' = Response(uid, "insert_profile", err, IF err = "none" THEN 1 ELSE 0)
     /\ UNCHANGED <<users, events, regs, notifs, now>>

\* supabase.from("profiles").update(row).eq("user_id", target)
UpdateProfile(uid, target, row) ==
  LET targets == {p \in profiles : /\ ProfilesSelectPolicy(uid, p)
                                   /\ p.user_id = target
                                   /\ ProfilesUpdateUsing(uid, p)}
      news == {update_updated_at_column(
                 [row EXCEPT !.updated_at = Supplied(row.updated_at, p.updated_at)])
                 : p \in targets}
      err == IF targets = {} THEN "none"
             ELSE IF ~ProfilesUpdateCheck(uid, row) THEN "rls"
             ELSE IF ~ProfilesUniqueOk(profiles \ targets, row) THEN "unique"
             ELSE IF row.user_id \notin users THEN "fk"
             ELSE "none"
  IN /\ profiles' = IF targets # {} /\ err = "none"
                    THEN (profiles \ targets) \cup news ELSE profiles
     /\ resp' = Response(uid, "update_profile", err,
                         IF err = "none" THEN Cardinality(targets) ELSE 0)
     /\ UNCHANGED <<users, events, regs, notifs, now>>

\* supabase.from("profiles").delete().eq("user_id", target)
DeleteProfile(uid, target) ==
  LET targets == {p \in profiles : /\ ProfilesSelectPolicy(uid, p)
                                   /\ p.user_id = target
                                   /\ ProfilesDeleteUsing(uid, p)}
  IN /\ profiles' = profiles \ targets
     /\ resp' = Response(uid, "delete_profile", "none", Cardinality(targets))
     /\ UNCHANGED <<users, events, regs, notifs, now>>

\* What an INSERT of `new` into event_notifications fails with.
NotifInsertError(uid, new) ==
  IF ~NotifsInsertCheck(uid, new) THEN "rls"
  ELSE IF ~NotifsTypeOk(new) THEN "check"
  ELSE IF ~NotifsFkOk(new) THEN "fk"
  ELSE "none"

FreshNotifIds == NotifIds \ {n.id : n \in notifs}

NewNotifId == CHOOSE i \in FreshNotifIds : \A j \in FreshNotifIds : i <= j

\* supabase.from("event_notifications").insert([row])
InsertNotification(uid, row) ==
  /\ FreshNotifIds # {}
  /\ LET new == [id |-> NewNotifId, event_id |-> row.event_id, user_id |-> row.user_id,
                 notification_type |-> row.notification_type, sent_at |-> row.sent_at]
         err == NotifInsertError(uid, new)
     IN /\ notifs' = IF err = "none" THEN notifs \cup {new} ELSE notifs
        /\ resp' = Response(uid, "insert_notif", err, IF err = "none" THEN 1 ELSE 0)
  /\ UNCHANGED <<users, profiles, events, regs, now>>

\* supabase.from("event_notifications").update(row).eq("id", id)
UpdateNotification(uid, id, row) ==
  LET targets == {n \in SelectNotifs(uid) : n.id = id /\ NotifsUpdateUsing(uid, n)}
      new == [id |-> id, event_id |-> row.event_id, user_id |-> row.user_id,
              notification_type |-> row.notification_type, sent_at |-> row.sent_at]
      err == IF targets = {} THEN "none"
             ELSE IF ~NotifsUpdateUsing(uid, new) THEN "rls"
             ELSE IF ~NotifsTypeOk(new) THEN "check"
             ELSE IF ~NotifsFkOk(new) THEN "fk"
             ELSE "none"
  IN /\ notifs' = IF targets # {} /\ err = "none"
                  THEN (notifs \ targets) \cup {new} ELSE notifs
     /\ resp' = Response(uid, "update_notif", err,
                         IF err = "none" THEN Cardinality(targets) ELSE 0)
     /\ UNCHANGED <<users, profiles, events, regs, now>>

\* supabase.from("event_notifications").delete().eq("id", id)
DeleteNotification(uid, id) ==
  LET targets == {n \in SelectNotifs(uid) : n.id = id /\ NotifsDeleteUsing(uid, n)}
  IN /\ notifs' = notifs \ targets
     /\ resp' = Response(uid, "delete_notif", "none", Cardinality(targets))
     /\ UNCHANGED <<users, profiles, events, regs, now>>

\* A request that is not answered by the store (the store is unreachable, the
\* session has expired): nothing is written and the client gets an error.
RequestFails(uid, op) ==
  /\ resp' = Response(uid, op, "transport", 0)
  /\ UNCHANGED <<users, profiles, events, regs, notifs, now>>

(***************************************************************************)
(* Identities.  auth.users is written by the identity provider, not by a   *)
(* caller under the policies; its rows fire on_auth_user_created and its   *)
(* deletions cascade.                                                      *)
(***************************************************************************)
System == "system"

\* Faulty variant: the trigger returns without writing the profile.
handle_new_user_NoInsert(new, name) == [ok |-> TRUE, profiles |-> profiles]

\* handle_new_user(): SECURITY DEFINER, so no policy applies to its insert.
\* A failure of the insert aborts the insert into auth.users with it.
handle_new_user(new, name) ==
  LET row == [user_id |-> new, display_name |-> name, prefs |-> DefaultPrefs,
              updated_at |-> now]
  IN IF ProfilesUniqueOk(profiles, row)
     THEN [ok |-> TRUE, profiles |-> profiles \cup {row}]
     ELSE [ok |-> FALSE, profiles |-> profiles]

\* INSERT INTO auth.users, then the AFTER INSERT trigger, in one transaction.
\* name: raw_user_meta_data ->> 'display_name', or the email when that is null.
IdentityCreated(new, name) ==
  /\ new \notin users
  /\ LET t == handle_new_user(new, name)
     IN /\ users' = IF t.ok THEN users \cup {new} ELSE users
        /\ profiles' = t.profiles
        /\ resp' = Response(System, "create_identity",
                            IF t.ok THEN "none" ELSE "unique", IF t.ok THEN 1 ELSE 0)
  /\ UNCHANGED <<events, regs, notifs, now>>

\* DELETE FROM auth.users: events(created_by), event_registrations(user_id)
\* and profiles(user_id) cascade, and the deleted events cascade in turn.
IdentityRemoved(old) ==
  /\ old \in users
  /\ LET gone == {e.id : e \in {x \in events : x.created_by = old}}
     IN /\ users' = users \ {old}
        /\ events' = {e \in events : e.created_by # old}
        /\ regs' = {r \in regs : r.user_id # old /\ r.event_id \notin gone}
        /\ notifs' = {n \in notifs : n.user_id # old /\ n.event_id \notin gone}
        /\ profiles' = {p \in profiles : p.user_id # old}
        /\ resp' = Response(System, "remove_identity", "none", 1)
        /\ now' = now

(***************************************************************************)
(* Initial states.                                                         *)
(***************************************************************************)
Idle == [op |-> "idle", ev |-> NoEventId, reg |-> NoRegId]

NoToast == [user |-> NoUser, variant |-> "none"]

\* EventDialog before it is first opened: formData as useState leaves it.
EmptyForm == [is_public |-> TRUE, max_attendees |-> NoLimit]

DialogInit == [isOpen |-> FALSE, event |-> NoEvent, formData |-> EmptyForm,
               loading |-> FALSE, submitting |-> FALSE]

\* NotificationSettings before it is first opened.
SettingsInit == [isOpen |-> FALSE, preferences |-> DefaultPrefs, loading |-> FALSE,
                 fetching |-> FALSE, saving |-> FALSE]

\* No session: the null that supabase.auth hands out when nobody is signed in.
NoSession == [user |-> NoUser, gen |-> 0]

\* Index after its first effect: the three useState values, the subscription
\* made (it is first called with the initial session) and getSession() called.
AuthInit ==
  [user |-> NoUser, session |-> NoSession, loading |-> TRUE,
   current |-> NoSession, callbacks |-> {NoSession},
   getSession |-> [stage |-> "called", value |-> NoSession]]

\* reminder_times: [24, 1], hours before the event
DefaultReminderTimes == <<96, 4>>

ClientInit ==
  /\ auth = AuthInit
  /\ reminder_times = DefaultReminderTimes
  /\ toast = NoToast
  /\ refreshTrigger = [u \in Users |-> 0]
  /\ eventDialog = [u \in Users |-> DialogInit]
  /\ notificationSettings = [u \in Users |-> SettingsInit]
  /\ selectedEvent = [u \in Users |-> NoEvent]
  /\ isOpen = [u \in Users |-> FALSE]
  /\ registration = [u \in Users |-> NoReg]
  /\ registrationCount = [u \in Users |-> 0]
  /\ loading = [u \in Users |-> FALSE]
  /\ pending = [u \in Users |-> Idle]
  /\ fetches = {}

\* The database as the migrations leave it: every table empty.
InitEmpty ==
  /\ users = {}
  /\ profiles = {}
  /\ events = {}
  /\ regs = {}
  /\ notifs = {}
  /\ now = 0
  /\ resp = Response(System, "migrate", "none", 0)
  /\ ClientInit

\* The same database once every identity has signed up: the rows of profiles
\* are the ones on_auth_user_created wrote.
Init ==
  /\ users = Users
  /\ profiles = {[user_id |-> u, display_name |-> u, prefs |-> DefaultPrefs,
                  updated_at |-> 0] : u \in Users}
  /\ events = {}
  /\ regs = {}
  /\ notifs = {}
  /\ now = 0
  /\ resp = Response(System, "migrate", "none", 0)
  /\ ClientInit

(***************************************************************************)
(* The store's query interface, open to every caller with any arguments.   *)
(***************************************************************************)
EventRows == [created_by : Users, is_public : BOOLEAN, max_attendees : {NoLimit, 1},
              updated_at : {Unset}]

ProfileRows == [user_id : Users, display_name : {"renamed"}, prefs : Prefs,
                updated_at : {Unset}]

ApiInsertEvent ==
  \E uid \in users, row \in EventRows : InsertEvent(uid, row) /\ UNCHANGED client

ApiUpdateEvent ==
  \E uid \in users, id \in EventIds, row \in EventRows :
    UpdateEvent(uid, id, row) /\ UNCHANGED client

ApiDeleteEvent ==
  \E uid \in users, id \in EventIds : DeleteEvent(uid, id) /\ UNCHANGED client

ApiInsertProfile ==
  \E uid \in users, row \in ProfileRows : InsertProfile(uid, row) /\ UNCHANGED client

ApiUpdateProfile ==
  \E uid \in users, target \in Users, row \in ProfileRows :
    UpdateProfile(uid, target, row) /\ UNCHANGED client

ApiDeleteProfile ==
  \E uid \in users, target \in Users : DeleteProfile(uid, target) /\ UNCHANGED client

SignUp ==
  \E new \in Users : IdentityCreated(new, new) /\ UNCHANGED client

RemoveIdentity ==
  \E old \in Users : IdentityRemoved(old) /\ UNCHANGED client

\* The events table under every caller's writes.
NextEvents ==
  \/ ApiInsertEvent
  \/ ApiUpdateEvent
  \/ ApiDeleteEvent

SpecEvents == Init /\ [][NextEvents]_vars

\* The registrations table under the writes of a and b, each naming either of
\* them in the row it sends, over events that c and a create and delete.
Owners == {"c", "a"}

Registrants == {"a", "b"}

OwnedRows == [created_by : Owners, is_public : BOOLEAN, max_attendees : {NoLimit},
              updated_at : {Unset}]

RegRows == [event_id : EventIds, user_id : Registrants, status : {"registered", "cancelled"}]

KnownRegIds == {r.id : r \in regs} \cup {NoRegId}

OwnerInsertEvent ==
  \E uid \in Owners, row \in OwnedRows : InsertEvent(uid, row) /\ UNCHANGED client

OwnerDeleteEvent ==
  \E uid \in Owners, id \in EventIds : DeleteEvent(uid, id) /\ UNCHANGED client

ApiInsertRegistration ==
  \E uid \in Registrants, row \in RegRows : InsertRegistration(uid, row) /\ UNCHANGED client

ApiUpdateRegistration ==
  \E uid \in Registrants, id \in KnownRegIds, row \in RegRows :
    UpdateRegistration(uid, id, row) /\ UNCHANGED client

ApiDeleteRegistration ==
  \E uid \in Registrants, id \in KnownRegIds :
    DeleteRegistration(uid, id) /\ UNCHANGED client

NextRegs ==
  \/ OwnerInsertEvent
  \/ OwnerDeleteEvent
  \/ ApiInsertRegistration
  \/ ApiUpdateRegistration
  \/ ApiDeleteRegistration

SpecRegs == Init /\ [][NextRegs]_vars

\* Identities and their profiles, from the empty database.
NextIdentity ==
  \/ SignUp
  \/ RemoveIdentity
  \/ ApiInsertProfile
  \/ ApiUpdateProfile
  \/ ApiDeleteProfile

SpecIdentity == InitEmpty /\ [][NextIdentity]_vars

\* The notifications table under every caller's writes, signed in or not, on
\* the events that c creates and deletes.
Callers == {"a", "b", Anon}

HostRows == [created_by : {"c"}, is_public : {TRUE}, max_attendees : {NoLimit},
             updated_at : {Unset}]

NotifRows == [event_id : EventIds, user_id : {"a", "b"},
              notification_type : {"reminder", "digest"}, sent_at : {NoTime, 0}]

HostInsertEvent ==
  \E row \in HostRows : InsertEvent("c", row) /\ UNCHANGED client

HostDeleteEvent ==
  \E id \in EventIds : DeleteEvent("c", id) /\ UNCHANGED client

ApiInsertNotification ==
  \E uid \in Callers, row \in NotifRows : InsertNotification(uid, row) /\ UNCHANGED client

ApiUpdateNotification ==
  \E uid \in Callers, id \in NotifIds, row \in NotifRows :
    UpdateNotification(uid, id, row) /\ UNCHANGED client

ApiDeleteNotification ==
  \E uid \in Callers, id \in NotifIds : DeleteNotification(uid, id) /\ UNCHANGED client

NextNotifs ==
  \/ HostInsertEvent
  \/ HostDeleteEvent
  \/ ApiInsertNotification
  \/ ApiUpdateNotification
  \/ ApiDeleteNotification

SpecNotifs == Init /\ [][NextNotifs]_vars

\* Rows and the rows they reference: c's events, the registrations a and b
\* make for themselves, notifications enqueued for them, and identities that
\* come and go.
JoinEvent ==
  \E uid \in Registrants, id \in EventIds :
    /\ InsertRegistration(uid, [event_id |-> id, user_id |-> uid, status |-> "registered"])
    /\ UNCHANGED client

Enqueue ==
  \E id \in EventIds, uid \in Registrants :
    /\ InsertNotification(Anon, [event_id |-> id, user_id |-> uid,
                                 notification_type |-> "reminder", sent_at |-> NoTime])
    /\ UNCHANGED client

NextCascade ==
  \/ HostInsertEvent
  \/ HostDeleteEvent
  \/ JoinEvent
  \/ Enqueue
  \/ SignUp
  \/ RemoveIdentity

SpecCascade == Init /\ [][NextCascade]_vars

\* The clock and the rows that carry updated_at: c's requests on its events
\* and its profile, each a transaction that starts later than the one before
\* it, with or without a value for updated_at in the row it sends.
StampedRows == [created_by : {"c"}, is_public : BOOLEAN, max_attendees : {NoLimit},
                updated_at : {Unset} \cup Times]

StampedProfiles == [user_id : {"c"}, display_name : {"renamed"}, prefs : Prefs,
                    updated_at : {Unset} \cup Times]

Later == resp.at < now

Tick ==
  /\ now < MaxTime
  /\ now' = now + 1
  /\ UNCHANGED <<users, profiles, events, regs, notifs, resp, client>>

StampedInsertEvent ==
  \E row \in StampedRows : Later /\ InsertEvent("c", row) /\ UNCHANGED client

StampedUpdateEvent ==
  \E id \in EventIds, row \in StampedRows :
    Later /\ UpdateEvent("c", id, row) /\ UNCHANGED client

StampedUpdateProfile ==
  \E row \in StampedProfiles : Later /\ UpdateProfile("c", "c", row) /\ UNCHANGED client

NextClock ==
  \/ Tick
  \/ StampedInsertEvent
  \/ StampedUpdateEvent
  \/ StampedUpdateProfile

SpecClock == Init /\ [][NextClock]_vars

(***************************************************************************)
(* The client.  Every identity has a session whose Index shows one         *)
(* EventDetails; currentUserId is the session's identity.                  *)
(***************************************************************************)
Fetch(u, ev) == [user |-> u, ev |-> ev, stage |-> 1]

\* toast({title: "Success"}) or toast({title: "Error", variant: "destructive"})
Toast(u, err) ==
  [user |-> u, variant |-> IF err = "none" THEN "default" ELSE "destructive"]

\* EventDetails' derived values, as of its last render.
isEventCreator(u) == u = selectedEvent[u].created_by

canRegister(u) ==
  /\ registration[u] = NoReg
  /\ selectedEvent[u].is_public
  /\ ~isEventCreator(u)

canUnregister(u) ==
  /\ registration[u] # NoReg
  /\ registration[u].status = "registered"

\* event.max_attendees && registrationCount >= event.max_attendees
isFull(u) ==
  /\ selectedEvent[u].max_attendees # NoLimit
  /\ selectedEvent[u].max_attendees # 0
  /\ registrationCount[u] >= selectedEvent[u].max_attendees

\* The dialog renders and its buttons can be clicked.
Shown(u) == isOpen[u] /\ selectedEvent[u] # NoEvent

\* The Register button is rendered (and not the disabled Event Full one).
RegisterOffered(u) == Shown(u) /\ canRegister(u) /\ ~isFull(u)

\* Index.handleEventSelect with an event of the calendar, which lists what the
\* caller may read; the effect of EventDetails then starts a fetch.  The dialog
\* is modal: no other event is selected while it is open.
handleEventSelect(u, ev) ==
  /\ ~isOpen[u]
  /\ ev \in SelectEvents(u)
  /\ selectedEvent' = [selectedEvent EXCEPT ![u] = ev]
  /\ isOpen' = [isOpen EXCEPT ![u] = TRUE]
  /\ fetches' = fetches \cup {Fetch(u, ev.id)}
  /\ UNCHANGED <<store, registration, registrationCount, loading, pending, toast, panels>>

\* onClose: setShowEventDetails(false)
onClose(u) ==
  /\ isOpen[u]
  /\ isOpen' = [isOpen EXCEPT ![u] = FALSE]
  /\ UNCHANGED <<store, selectedEvent, registration, registrationCount, loading,
                 pending, fetches, toast, panels>>

\* fetchRegistrationInfo, first query: the caller's registered row of the event
\* (.single(): the row when there is exactly one, else null).
fetchUserRegistration(f) ==
  /\ f \in fetches
  /\ f.stage = 1
  /\ LET rows == {r \in SelectRegs(f.user) : /\ r.event_id = f.ev
                                             /\ r.user_id = f.user
                                             /\ r.status = "registered"}
     IN registration' = [registration EXCEPT ![f.user] =
                           IF Cardinality(rows) = 1 THEN CHOOSE r \in rows : TRUE
                           ELSE NoReg]
  /\ fetches' = (fetches \ {f}) \cup {[f EXCEPT !.stage = 2]}
  /\ UNCHANGED <<store, selectedEvent, isOpen, registrationCount, loading, pending,
                 toast, panels>>

\* fetchRegistrationInfo, second query: the count of the event's registered
\* rows, which the store takes over the rows the caller may read.
fetchRegistrationCount(f) ==
  /\ f \in fetches
  /\ f.stage = 2
  /\ LET rows == {r \in SelectRegs(f.user) : /\ r.event_id = f.ev
                                             /\ r.status = "registered"}
     IN registrationCount' = [registrationCount EXCEPT ![f.user] = Cardinality(rows)]
  /\ fetches' = fetches \ {f}
  /\ UNCHANGED <<store, selectedEvent, isOpen, registration, loading, pending,
                 toast, panels>>

\* handleRegister up to its await: the Register button is there to click.
handleRegister(u) ==
  /\ RegisterOffered(u)
  /\ ~loading[u]
  /\ loading' = [loading EXCEPT ![u] = TRUE]
  /\ pending' = [pending EXCEPT ![u] =
                   [op |-> "register", ev |-> selectedEvent[u].id, reg |-> NoRegId]]
  /\ UNCHANGED <<store, selectedEvent, isOpen, registration, registrationCount, fetches,
                 toast, panels>>

\* handleRegister once its request is answered: an error is shown, a success
\* is shown and re-fetches; loading is reset either way.
handleRegisterSettle(u) ==
  /\ fetches' = IF resp'.err = "none"
                THEN fetches \cup {Fetch(u, pending[u].ev)} ELSE fetches
  /\ toast' = Toast(u, resp'.err)
  /\ loading' = [loading EXCEPT ![u] = FALSE]
  /\ pending' = [pending EXCEPT ![u] = Idle]
  /\ UNCHANGED <<selectedEvent, isOpen, registration, registrationCount, panels>>

\* handleRegister from its insert on.
handleRegisterInsert(u) ==
  /\ pending[u].op = "register"
  /\ InsertRegistration(u, [event_id |-> pending[u].ev, user_id |-> u,
                            status |-> "registered"])
  /\ handleRegisterSettle(u)

\* handleRegister when its insert does not reach the store.
handleRegisterFails(u) ==
  /\ pending[u].op = "register"
  /\ RequestFails(u, "insert_reg")
  /\ handleRegisterSettle(u)

\* Faulty variant: the Unregister button is not disabled while loading.
handleUnregister_NotDisabled(u) ==
  /\ Shown(u)
  /\ canUnregister(u)
  /\ loading' = [loading EXCEPT ![u] = TRUE]
  /\ pending' = [pending EXCEPT ![u] =
                   [op |-> "unregister", ev |-> selectedEvent[u].id,
                    reg |-> registration[u].id]]
  /\ UNCHANGED <<store, selectedEvent, isOpen, registration, registrationCount, fetches,
                 toast, panels>>

\* handleUnregister up to its await.
handleUnregister(u) ==
  /\ Shown(u)
  /\ canUnregister(u)
  /\ ~loading[u]
  /\ loading' = [loading EXCEPT ![u] = TRUE]
  /\ pending' = [pending EXCEPT ![u] =
                   [op |-> "unregister", ev |-> selectedEvent[u].id,
                    reg |-> registration[u].id]]
  /\ UNCHANGED <<store, selectedEvent, isOpen, registration, registrationCount, fetches,
                 toast, panels>>

\* handleUnregister once its request is answered.
handleUnregisterSettle(u) ==
  /\ fetches' = IF resp'.err = "none"
                THEN fetches \cup {Fetch(u, pending[u].ev)} ELSE fetches
  /\ toast' = Toast(u, resp'.err)
  /\ loading' = [loading EXCEPT ![u] = FALSE]
  /\ pending' = [pending EXCEPT ![u] = Idle]
  /\ UNCHANGED <<selectedEvent, isOpen, registration, registrationCount, panels>>

\* handleUnregister from its delete on.
handleUnregisterDelete(u) ==
  /\ pending[u].op = "unregister"
  /\ DeleteRegistration(u, pending[u].reg)
  /\ handleUnregisterSettle(u)

\* handleUnregister when its delete does not reach the store.
handleUnregisterFails(u) ==
  /\ pending[u].op = "unregister"
  /\ RequestFails(u, "delete_reg")
  /\ handleUnregisterSettle(u)

\* handleDeleteEvent up to its await: the Delete button is the creator's.
handleDeleteEvent(u) ==
  /\ Shown(u)
  /\ isEventCreator(u)
  /\ ~loading[u]
  /\ selectedEvent[u].created_by = u
  /\ refreshTrigger[u] < MaxRefresh
  /\ loading' = [loading EXCEPT ![u] = TRUE]
  /\ pending' = [pending EXCEPT ![u] =
                   [op |-> "delete", ev |-> selectedEvent[u].id, reg |-> NoRegId]]
  /\ UNCHANGED <<store, selectedEvent, isOpen, registration, registrationCount, fetches,
                 toast, panels>>

\* handleDeleteEvent once its request is answered: an error is shown, a
\* success is shown and calls onDelete() and onClose().
handleDeleteEventSettle(u) ==
  /\ isOpen' = IF resp'.err = "none" THEN [isOpen EXCEPT ![u] = FALSE] ELSE isOpen
  /\ refreshTrigger' = IF resp'.err = "none"
                       THEN [refreshTrigger EXCEPT ![u] = @ + 1] ELSE refreshTrigger
  /\ toast' = Toast(u, resp'.err)
  /\ loading' = [loading EXCEPT ![u] = FALSE]
  /\ pending' = [pending EXCEPT ![u] = Idle]
  /\ UNCHANGED <<selectedEvent, registration, registrationCount, fetches,
                 eventDialog, notificationSettings,
                 auth, reminder_times>>

\* handleDeleteEvent from its delete on.
handleDeleteEventDelete(u) ==
  /\ pending[u].op = "delete"
  /\ DeleteEvent(u, pending[u].ev)
  /\ handleDeleteEventSettle(u)

\* handleDeleteEvent when its delete does not reach the store.
handleDeleteEventFails(u) ==
  /\ pending[u].op = "delete"
  /\ RequestFails(u, "delete_event")
  /\ handleDeleteEventSettle(u)

\* EventDialog.handleSubmit without an event to edit, from handleCreateEvent
\* to the dialog closing again with no other step between: an insert as the
\* caller, then onSave() and onClose().
handleSubmit(u, form) ==
  /\ ~eventDialog[u].isOpen
  /\ refreshTrigger[u] < MaxRefresh
  /\ InsertEvent(u, [created_by |-> u, is_public |-> form.is_public,
                     max_attendees |-> form.max_attendees, updated_at |-> Unset])
  /\ refreshTrigger' = IF resp'.err = "none"
                       THEN [refreshTrigger EXCEPT ![u] = @ + 1] ELSE refreshTrigger
  /\ toast' = Toast(u, resp'.err)
  /\ eventDialog' = [eventDialog EXCEPT ![u] =
                       [@ EXCEPT !.event = NoEvent,
                                 !.formData = IF resp'.err = "none" THEN @ ELSE form,
                                 !.isOpen = resp'.err # "none"]]
  /\ UNCHANGED <<selectedEvent, isOpen, registration, registrationCount, loading,
                 pending, fetches, notificationSettings,
                 auth, reminder_times>>

Forms == [is_public : BOOLEAN, max_attendees : Caps]

(***************************************************************************)
(* Index and EventDialog.  A session shows one dialog at a time: each is    *)
(* modal over the page that opens it.                                       *)
(***************************************************************************)
NothingOpen(u) ==
  /\ ~isOpen[u]
  /\ ~eventDialog[u].isOpen
  /\ ~notificationSettings[u].isOpen

\* The fields of EventDialog's form that the model keeps.
FormOf(ev) == [is_public |-> ev.is_public, max_attendees |-> ev.max_attendees]

\* Index.handleCreateEvent; the effect of EventDialog resets formData.
handleCreateEvent(u) ==
  /\ NothingOpen(u)
  /\ eventDialog' = [eventDialog EXCEPT ![u] =
                       [@ EXCEPT !.isOpen = TRUE, !.event = NoEvent,
                                 !.formData = EmptyForm]]
  /\ UNCHANGED <<store, selectedEvent, isOpen, registration, registrationCount, loading,
                 pending, fetches, toast, refreshTrigger, notificationSettings,
                 auth, reminder_times>>

\* Index.handleEditEvent, from the Edit button that EventDetails shows to the
\* event's creator; the effect of EventDialog copies the event into formData.
handleEditEvent(u) ==
  /\ Shown(u)
  /\ isEventCreator(u)
  /\ eventDialog' = [eventDialog EXCEPT ![u] =
                       [@ EXCEPT !.isOpen = TRUE, !.event = selectedEvent[u],
                                 !.formData = FormOf(selectedEvent[u])]]
  /\ isOpen' = [isOpen EXCEPT ![u] = FALSE]
  /\ UNCHANGED <<store, selectedEvent, registration, registrationCount, loading,
                 pending, fetches, toast, refreshTrigger, notificationSettings,
                 auth, reminder_times>>

\* EventDialog.handleInputChange, for the fields together.
handleInputChange(u, form) ==
  /\ eventDialog[u].isOpen
  /\ ~eventDialog[u].submitting
  /\ eventDialog' = [eventDialog EXCEPT ![u] = [@ EXCEPT !.formData = form]]
  /\ UNCHANGED <<store, selectedEvent, isOpen, registration, registrationCount, loading,
                 pending, fetches, toast, refreshTrigger, notificationSettings,
                 auth, reminder_times>>

\* EventDialog's onClose: setShowEventDialog(false)
onCloseEventDialog(u) ==
  /\ eventDialog[u].isOpen
  /\ eventDialog' = [eventDialog EXCEPT ![u] = [@ EXCEPT !.isOpen = FALSE]]
  /\ UNCHANGED <<store, selectedEvent, isOpen, registration, registrationCount, loading,
                 pending, fetches, toast, refreshTrigger, notificationSettings,
                 auth, reminder_times>>

\* EventDialog.handleSubmit up to its awaits: the submit button is there to
\* click.
handleSubmitStart(u) ==
  /\ eventDialog[u].isOpen
  /\ ~eventDialog[u].loading
  /\ refreshTrigger[u] < MaxRefresh
  /\ eventDialog' = [eventDialog EXCEPT ![u] =
                       [@ EXCEPT !.loading = TRUE, !.submitting = TRUE]]
  /\ UNCHANGED <<store, selectedEvent, isOpen, registration, registrationCount, loading,
                 pending, fetches, toast, refreshTrigger, notificationSettings,
                 auth, reminder_times>>

\* Faulty variant: onSave() and onClose() are called whatever the answer.
handleSubmitSettle_AlwaysSaved(u) ==
  /\ refreshTrigger' = [refreshTrigger EXCEPT ![u] = @ + 1]
  /\ toast' = Toast(u, resp'.err)
  /\ eventDialog' = [eventDialog EXCEPT ![u] =
                       [@ EXCEPT !.loading = FALSE, !.submitting = FALSE,
                                 !.isOpen = FALSE]]
  /\ UNCHANGED <<selectedEvent, isOpen, registration, registrationCount, loading,
                 pending, fetches, notificationSettings,
                 auth, reminder_times>>

\* EventDialog.handleSubmit once its request is answered: an error is shown,
\* a success is shown and calls onSave() and onClose().
handleSubmitSettle(u) ==
  /\ refreshTrigger' = IF resp'.err = "none"
                       THEN [refreshTrigger EXCEPT ![u] = @ + 1] ELSE refreshTrigger
  /\ toast' = Toast(u, resp'.err)
  /\ eventDialog' = [eventDialog EXCEPT ![u] =
                       [@ EXCEPT !.loading = FALSE, !.submitting = FALSE,
                                 !.isOpen = IF resp'.err = "none" THEN FALSE ELSE @]]
  /\ UNCHANGED <<selectedEvent, isOpen, registration, registrationCount, loading,
                 pending, fetches, notificationSettings,
                 auth, reminder_times>>

\* eventData: formData with created_by set to the caller; the event being
\* edited brings its updated_at along.
eventData(u) ==
  [created_by |-> u, is_public |-> eventDialog[u].formData.is_public,
   max_attendees |-> eventDialog[u].formData.max_attendees,
   updated_at |-> IF eventDialog[u].event = NoEvent THEN Unset
                  ELSE eventDialog[u].event.updated_at]

\* EventDialog.handleSubmit from its write on: an update of the event being
\* edited, an insert when there is none.
handleSubmitWrite(u) ==
  /\ eventDialog[u].submitting
  /\ IF eventDialog[u].event = NoEvent
     THEN InsertEvent(u, eventData(u))
     ELSE UpdateEvent(u, eventDialog[u].event.id, eventData(u))
  /\ handleSubmitSettle(u)

\* EventDialog.handleSubmit when its write does not reach the store.
handleSubmitFails(u) ==
  /\ eventDialog[u].submitting
  /\ RequestFails(u, IF eventDialog[u].event = NoEvent
                     THEN "insert_event" ELSE "update_event")
  /\ handleSubmitSettle(u)

(***************************************************************************)
(* NotificationSettings; userId is the session's identity.                 *)
(***************************************************************************)
\* Index: setShowNotificationSettings(true); the effect of NotificationSettings
\* then starts fetchPreferences.
openNotificationSettings(u) ==
  /\ NothingOpen(u)
  /\ notificationSettings' = [notificationSettings EXCEPT ![u] =
                                [@ EXCEPT !.isOpen = TRUE, !.fetching = TRUE]]
  /\ UNCHANGED <<store, selectedEvent, isOpen, registration, registrationCount, loading,
                 pending, fetches, toast, refreshTrigger, eventDialog,
                 auth, reminder_times>>

\* NotificationSettings' onClose: setShowNotificationSettings(false)
onCloseNotificationSettings(u) ==
  /\ notificationSettings[u].isOpen
  /\ notificationSettings' = [notificationSettings EXCEPT ![u] =
                                [@ EXCEPT !.isOpen = FALSE]]
  /\ UNCHANGED <<store, selectedEvent, isOpen, registration, registrationCount, loading,
                 pending, fetches, toast, refreshTrigger, eventDialog,
                 auth, reminder_times>>

\* fetchPreferences answered: .single() gives the caller's profile when there
\* is exactly one, else an error that is logged and changes nothing.
fetchPreferences(u) ==
  /\ notificationSettings[u].fetching
  /\ LET rows == {p \in SelectProfiles(u) : p.user_id = u}
     IN notificationSettings' = [notificationSettings EXCEPT ![u] =
          [@ EXCEPT !.fetching = FALSE,
                    !.preferences = IF Cardinality(rows) = 1
                                    THEN (CHOOSE p \in rows : TRUE).prefs ELSE @]]
  /\ UNCHANGED <<store, selectedEvent, isOpen, registration, registrationCount, loading,
                 pending, fetches, toast, refreshTrigger, eventDialog,
                 auth, reminder_times>>

\* setPreferences from the switches and reminder buttons of the dialog.
setPreferences(u, prefs) ==
  /\ notificationSettings[u].isOpen
  /\ ~notificationSettings[u].saving
  /\ notificationSettings' = [notificationSettings EXCEPT ![u] =
                                [@ EXCEPT !.preferences = prefs]]
  /\ UNCHANGED <<store, selectedEvent, isOpen, registration, registrationCount, loading,
                 pending, fetches, toast, refreshTrigger, eventDialog,
                 auth, reminder_times>>

\* handleSave up to its await: the Save Settings button is there to click.
handleSave(u) ==
  /\ notificationSettings[u].isOpen
  /\ ~notificationSettings[u].loading
  /\ notificationSettings' = [notificationSettings EXCEPT ![u] =
                                [@ EXCEPT !.loading = TRUE, !.saving = TRUE]]
  /\ UNCHANGED <<store, selectedEvent, isOpen, registration, registrationCount, loading,
                 pending, fetches, toast, refreshTrigger, eventDialog,
                 auth, reminder_times>>

\* handleSave once its request is answered: an error is shown, a success is
\* shown and calls onClose().
handleSaveSettle(u) ==
  /\ toast' = Toast(u, resp'.err)
  /\ notificationSettings' = [notificationSettings EXCEPT ![u] =
          [@ EXCEPT !.loading = FALSE, !.saving = FALSE,
                    !.isOpen = IF resp'.err = "none" THEN FALSE ELSE @]]
  /\ UNCHANGED <<selectedEvent, isOpen, registration, registrationCount, loading,
                 pending, fetches, refreshTrigger, eventDialog,
                 auth, reminder_times>>

\* The row that update({notification_preferences}) leaves of the caller's
\* profile: every other column as it is.
PreferencesPatch(u, prefs) ==
  LET rows == {p \in profiles : p.user_id = u}
  IN IF rows = {}
     THEN [user_id |-> u, display_name |-> u, prefs |-> prefs, updated_at |-> Unset]
     ELSE [(CHOOSE p \in rows : TRUE) EXCEPT !.prefs = prefs, !.updated_at = Unset]

\* handleSave from its update on.
handleSaveUpdate(u) ==
  /\ notificationSettings[u].saving
  /\ UpdateProfile(u, u, PreferencesPatch(u, notificationSettings[u].preferences))
  /\ handleSaveSettle(u)

\* handleSave when its update does not reach the store.
handleSaveFails(u) ==
  /\ notificationSettings[u].saving
  /\ RequestFails(u, "update_profile")
  /\ handleSaveSettle(u)

(***************************************************************************)
(* The sessions of the specifications below: c organises (its EventDialog  *)
(* creates the events and its EventDetails deletes them), a and b are the  *)
(* members who register.  The calendar lists one event at a time.          *)
(***************************************************************************)
Organizers == {"c"}

Members == {"a", "b"}

Room == events = {}

(***************************************************************************)
(* Registration attempts that never overlap: a session opens an event only *)
(* while every other session is closed with nothing in flight, and clicks  *)
(* only once its own fetch has been answered.  An event is never updated,  *)
(* so the event prop of an open dialog is the row of the store.            *)
(***************************************************************************)
Settled(u) == \A f \in fetches : f.user # u

Quiet(u) == ~isOpen[u] /\ pending[u] = Idle /\ Settled(u)

Alone(u) == \A v \in Users \ {u} : Quiet(v)

SeqSubmit ==
  \E u \in Organizers, form \in Forms : Room /\ Alone(u) /\ handleSubmit(u, form)

SeqSelect == \E u \in Users, ev \in events : Alone(u) /\ handleEventSelect(u, ev)

SeqClose == \E u \in Users : onClose(u)

SeqFetchUserRegistration == \E f \in fetches : fetchUserRegistration(f)

SeqFetchRegistrationCount == \E f \in fetches : fetchRegistrationCount(f)

SeqRegister == \E u \in Users : Settled(u) /\ handleRegister(u)

SeqRegisterInsert == \E u \in Users : handleRegisterInsert(u)

SeqUnregister == \E u \in Users : Settled(u) /\ handleUnregister(u)

SeqUnregisterDelete == \E u \in Users : handleUnregisterDelete(u)

SeqDeleteEvent == \E u \in Users : Settled(u) /\ handleDeleteEvent(u)

SeqDeleteEventDelete == \E u \in Users : handleDeleteEventDelete(u)

NextSeq ==
  \/ SeqSubmit
  \/ SeqSelect
  \/ SeqClose
  \/ SeqFetchUserRegistration
  \/ SeqFetchRegistrationCount
  \/ SeqRegister
  \/ SeqRegisterInsert
  \/ SeqUnregister
  \/ SeqUnregisterDelete
  \/ SeqDeleteEvent
  \/ SeqDeleteEventDelete

SpecSeq == Init /\ [][NextSeq]_vars

(***************************************************************************)
(* The members' sessions as they run: every handler of either interleaves  *)
(* with the other's at its awaits.                                         *)
(***************************************************************************)
Submit == \E u \in Organizers, form \in Forms : Room /\ handleSubmit(u, form)

Select == \E u \in Members, ev \in events : handleEventSelect(u, ev)

Close == \E u \in Members : onClose(u)

FetchUserRegistration == \E f \in fetches : fetchUserRegistration(f)

FetchRegistrationCount == \E f \in fetches : fetchRegistrationCount(f)

Register == \E u \in Members : handleRegister(u)

RegisterInsert == \E u \in Members : handleRegisterInsert(u)

Unregister == \E u \in Members : handleUnregister(u)

UnregisterDelete == \E u \in Members : handleUnregisterDelete(u)

Next ==
  \/ Submit
  \/ Select
  \/ Close
  \/ FetchUserRegistration
  \/ FetchRegistrationCount
  \/ Register
  \/ RegisterInsert
  \/ Unregister
  \/ UnregisterDelete

Spec == Init /\ [][Next]_vars

(***************************************************************************)
(* Every handler that writes, with requests that may fail to reach the     *)
(* store: c's session creates, edits and deletes the event, a's registers, *)
(* unregisters and saves its notification preferences.  A session opens a  *)
(* dialog only while the other is at rest.                                 *)
(***************************************************************************)
UiForms == [is_public : BOOLEAN, max_attendees : {NoLimit}]

AtRest(u) ==
  /\ NothingOpen(u)
  /\ Quiet(u)
  /\ ~eventDialog[u].submitting
  /\ ~notificationSettings[u].fetching
  /\ ~notificationSettings[u].saving

Turn(u) == \A v \in Users \ {u} : AtRest(v)

UiCreate == Room /\ Turn("c") /\ handleCreateEvent("c")

UiEdit == handleEditEvent("c")

UiInput == \E form \in UiForms : handleInputChange("c", form)

UiCloseEventDialog == onCloseEventDialog("c")

UiSubmitStart == handleSubmitStart("c")

UiSubmitWrite == handleSubmitWrite("c")

UiSubmitFails == handleSubmitFails("c")

UiSelect ==
  \E u \in {"c", "a"}, ev \in events :
    Turn(u) /\ NothingOpen(u) /\ handleEventSelect(u, ev)

UiClose == \E u \in {"c", "a"} : onClose(u)

UiFetchUserRegistration == \E f \in fetches : fetchUserRegistration(f)

UiFetchRegistrationCount == \E f \in fetches : fetchRegistrationCount(f)

UiRegister == handleRegister("a")

UiRegisterInsert == handleRegisterInsert("a")

UiRegisterFails == handleRegisterFails("a")

UiUnregister == handleUnregister("a")

UiUnregisterDelete == handleUnregisterDelete("a")

UiUnregisterFails == handleUnregisterFails("a")

UiDeleteEvent == handleDeleteEvent("c")

UiDeleteEventDelete == handleDeleteEventDelete("c")

UiDeleteEventFails == handleDeleteEventFails("c")

UiOpenSettings == Turn("a") /\ openNotificationSettings("a")

UiCloseSettings == onCloseNotificationSettings("a")

UiFetchPreferences == fetchPreferences("a")

UiSetPreferences == \E prefs \in Prefs : setPreferences("a", prefs)

UiSave == handleSave("a")

UiSaveUpdate == handleSaveUpdate("a")

UiSaveFails == handleSaveFails("a")

NextUi ==
  \/ UiCreate
  \/ UiEdit
  \/ UiInput
  \/ UiCloseEventDialog
  \/ UiSubmitStart
  \/ UiSubmitWrite
  \/ UiSubmitFails
  \/ UiSelect
  \/ UiClose
  \/ UiFetchUserRegistration
  \/ UiFetchRegistrationCount
  \/ UiRegister
  \/ UiRegisterInsert
  \/ UiRegisterFails
  \/ UiUnregister
  \/ UiUnregisterDelete
  \/ UiUnregisterFails
  \/ UiDeleteEvent
  \/ UiDeleteEventDelete
  \/ UiDeleteEventFails
  \/ UiOpenSettings
  \/ UiCloseSettings
  \/ UiFetchPreferences
  \/ UiSetPreferences
  \/ UiSave
  \/ UiSaveUpdate
  \/ UiSaveFails

SpecUi == Init /\ [][NextUi]_vars

(***************************************************************************)
(* One member who moves between two listed events: c saves two public      *)
(* events, a opens and closes their details and registers and unregisters, *)
(* and every fetchRegistrationInfo that a started is answered in its own   *)
(* time.                                                                   *)
(***************************************************************************)
PublicForms == [is_public : {TRUE}, max_attendees : {NoLimit}]

StaleSubmit == \E form \in PublicForms : handleSubmit("c", form)

StaleSelect == \E ev \in events : handleEventSelect("a", ev)

StaleClose == onClose("a")

StaleFetchUserRegistration == \E f \in fetches : fetchUserRegistration(f)

StaleFetchRegistrationCount == \E f \in fetches : fetchRegistrationCount(f)

StaleRegister == handleRegister("a")

StaleRegisterInsert == handleRegisterInsert("a")

StaleUnregister == handleUnregister("a")

StaleUnregisterDelete == handleUnregisterDelete("a")

NextStale ==
  \/ StaleSubmit
  \/ StaleSelect
  \/ StaleClose
  \/ StaleFetchUserRegistration
  \/ StaleFetchRegistrationCount
  \/ StaleRegister
  \/ StaleRegisterInsert
  \/ StaleUnregister
  \/ StaleUnregisterDelete

SpecStale == Init /\ [][NextStale]_vars

(***************************************************************************)
(* The notification queue next to the client: c saves an event, opens it   *)
(* and deletes it through EventDetails, while any caller sends the three   *)
(* writes of event_notifications to the store.                             *)
(***************************************************************************)
DispatchSubmit == \E form \in PublicForms : Room /\ handleSubmit("c", form)

DispatchSelect == \E ev \in events : handleEventSelect("c", ev)

DispatchClose == onClose("c")

DispatchFetchUserRegistration == \E f \in fetches : fetchUserRegistration(f)

DispatchFetchRegistrationCount == \E f \in fetches : fetchRegistrationCount(f)

DispatchDeleteEvent == handleDeleteEvent("c")

DispatchDeleteEventDelete == handleDeleteEventDelete("c")

NextDispatch ==
  \/ DispatchSubmit
  \/ DispatchSelect
  \/ DispatchClose
  \/ DispatchFetchUserRegistration
  \/ DispatchFetchRegistrationCount
  \/ DispatchDeleteEvent
  \/ DispatchDeleteEventDelete
  \/ ApiInsertNotification
  \/ ApiUpdateNotification
  \/ ApiDeleteNotification

SpecDispatch == Init /\ [][NextDispatch]_vars

(***************************************************************************)
(* Registrations written with any status a request can carry: one of the   *)
(* three the column allows, another text, or null.                         *)
(***************************************************************************)
StatusRows == [event_id : EventIds, user_id : {"a", "b"},
               status : {"registered", "waitlist", "attending", NullStatus}]

StatusInsertRegistration ==
  \E uid \in {"a", "b"}, row \in StatusRows :
    InsertRegistration(uid, row) /\ UNCHANGED client

StatusUpdateRegistration ==
  \E uid \in {"a", "b"}, r \in regs, row \in StatusRows :
    /\ row.event_id = r.event_id
    /\ row.user_id = r.user_id
    /\ UpdateRegistration(uid, r.id, row)
    /\ UNCHANGED client

StatusDeleteRegistration ==
  \E uid \in {"a", "b"}, r \in regs : DeleteRegistration(uid, r.id) /\ UNCHANGED client

NextStatus ==
  \/ HostInsertEvent
  \/ HostDeleteEvent
  \/ StatusInsertRegistration
  \/ StatusUpdateRegistration
  \/ StatusDeleteRegistration

SpecStatus == Init /\ [][NextStatus]_vars

(***************************************************************************)
(* An event edited while a member looks at it: c saves a public event and  *)
(* edits it through EventDetails and EventDialog, while a opens it and     *)
(* registers; neither session waits for the other.                         *)
(***************************************************************************)
EditSubmit == \E form \in PublicForms : Room /\ handleSubmit("c", form)

EditSelect == \E u \in {"c", "a"}, ev \in events : NothingOpen(u) /\ handleEventSelect(u, ev)

EditClose == \E u \in {"c", "a"} : onClose(u)

EditFetchUserRegistration == \E f \in fetches : fetchUserRegistration(f)

EditFetchRegistrationCount == \E f \in fetches : fetchRegistrationCount(f)

EditEdit == handleEditEvent("c")

EditInput == \E form \in UiForms : handleInputChange("c", form)

EditCloseEventDialog == onCloseEventDialog("c")

EditSubmitStart == handleSubmitStart("c")

EditSubmitWrite == handleSubmitWrite("c")

EditRegister == handleRegister("a")

EditRegisterInsert == handleRegisterInsert("a")

NextEdit ==
  \/ EditSubmit
  \/ EditSelect
  \/ EditClose
  \/ EditFetchUserRegistration
  \/ EditFetchRegistrationCount
  \/ EditEdit
  \/ EditInput
  \/ EditCloseEventDialog
  \/ EditSubmitStart
  \/ EditSubmitWrite
  \/ EditRegister
  \/ EditRegisterInsert

SpecEdit == Init /\ [][NextEdit]_vars

(***************************************************************************)
(* Index and the session of supabase.auth.  Every change of the session is *)
(* handed to the callback of onAuthStateChange, getSession() reads the     *)
(* session and resolves later; what is on its way to Index arrives in any  *)
(* order.                                                                  *)
(***************************************************************************)
Sessions == [user : {"a", "c"}, gen : 1..MaxSessions]

page == <<selectedEvent, isOpen, registration, registrationCount, loading, pending,
          fetches, toast, refreshTrigger, eventDialog, notificationSettings,
          reminder_times>>

\* What Index renders: the spinner while loading, Auth without a user, the
\* calendar otherwise.
Rendered ==
  IF auth.loading THEN "loading"
  ELSE IF auth.user = NoUser THEN "auth"
  ELSE "calendar"

\* setSession(session); setUser(session?.user ?? null); setLoading(false)
SetSession(session) ==
  [auth EXCEPT !.session = session,
               !.user = IF session = NoSession THEN NoUser ELSE session.user,
               !.loading = FALSE]

\* Faulty variant: the callback forgets setUser.
onAuthStateChange_KeepsUser(session) ==
  /\ session \in auth.callbacks
  /\ auth' = [auth EXCEPT !.session = session, !.loading = FALSE,
                          !.callbacks = @ \ {session}]
  /\ UNCHANGED <<store, page>>

\* The callback given to onAuthStateChange, called with a session on its way.
onAuthStateChange(session) ==
  /\ session \in auth.callbacks
  /\ auth' = [SetSession(session) EXCEPT !.callbacks = @ \ {session}]
  /\ UNCHANGED <<store, page>>

\* supabase.auth.getSession() reads the session ...
getSessionRead ==
  /\ auth.getSession.stage = "called"
  /\ auth' = [auth EXCEPT !.getSession = [stage |-> "read", value |-> auth.current]]
  /\ UNCHANGED <<store, page>>

\* ... and its .then runs.
getSessionThen ==
  /\ auth.getSession.stage = "read"
  /\ auth' = [SetSession(auth.getSession.value) EXCEPT !.getSession.stage = "done"]
  /\ UNCHANGED <<store, page>>

\* supabase.auth finds a stored session while the page loads, before anything
\* has been read or handed over: the initial session is that one.
SessionRecovered(session) ==
  /\ auth.loading
  /\ auth.current = NoSession
  /\ auth.callbacks = {NoSession}
  /\ auth.getSession.stage = "called"
  /\ auth' = [auth EXCEPT !.current = session, !.callbacks = {session}]
  /\ UNCHANGED <<store, page>>

\* The session changes: the callback will be called with the new one.
SessionBecomes(session) ==
  /\ auth' = [auth EXCEPT !.current = session, !.callbacks = @ \cup {session}]
  /\ UNCHANGED <<store, page>>

\* A sign-in on the Auth page.
SignedIn(session) == Rendered = "auth" /\ auth.current = NoSession /\ SessionBecomes(session)

\* The token of the session is refreshed.
TokenRefreshed ==
  /\ auth.current # NoSession
  /\ auth.current.gen < MaxSessions
  /\ SessionBecomes([auth.current EXCEPT !.gen = @ + 1])

\* Index.handleSignOut, from the header of the calendar.
handleSignOut == Rendered = "calendar" /\ auth.current # NoSession /\ SessionBecomes(NoSession)

\* The session ends without Index: it expires, or is signed out elsewhere.
SessionEnded == auth.current # NoSession /\ SessionBecomes(NoSession)

AuthRecovered == \E session \in Sessions : SessionRecovered(session)

AuthSignedIn == \E session \in Sessions : SignedIn(session)

AuthCallback == \E session \in Sessions \cup {NoSession} : onAuthStateChange(session)

NextAuth ==
  \/ AuthRecovered
  \/ AuthSignedIn
  \/ TokenRefreshed
  \/ handleSignOut
  \/ SessionEnded
  \/ getSessionRead
  \/ getSessionThen
  \/ AuthCallback

SpecAuth == Init /\ [][NextAuth]_vars

(***************************************************************************)
(* The reminder switches of NotificationSettings.  Times are counted in    *)
(* quarters of an hour, so that 0.5 and 0.25 hours are the integers 2, 1.  *)
(***************************************************************************)
\* reminderOptions: 168, 72, 24, 12, 6, 3, 1, 0.5, 0.25 hours
reminderOptions == {672, 288, 96, 48, 24, 12, 4, 2, 1}

\* list.includes(time)
includes(list, time) == \E i \in 1..Len(list) : list[i] = time

\* list.filter(t => t !== time)
filter(list, time) == SelectSeq(list, LAMBDA t : t # time)

RemoveAt(list, i) == SubSeq(list, 1, i - 1) \o SubSeq(list, i + 1, Len(list))

\* list.sort((a, b) => b - a): the numbers of list, largest first.
RECURSIVE sort(_)
sort(list) ==
  IF list = <<>> THEN <<>>
  ELSE LET i == CHOOSE i \in 1..Len(list) :
                  /\ \A j \in 1..Len(list) : list[j] <= list[i]
                  /\ \A j \in 1..(i - 1) : list[j] # list[i]
       IN <<list[i]>> \o sort(RemoveAt(list, i))

\* Faulty variant: the time is appended and the list is not sorted again.
toggleReminderTime_Unsorted(list, time) ==
  IF includes(list, time) THEN filter(list, time) ELSE Append(list, time)

\* toggleReminderTime, as the function it applies to prev.reminder_times.
toggleReminderTime(list, time) ==
  IF includes(list, time) THEN filter(list, time) ELSE sort(Append(list, time))

\* A switch of the dialog is flipped.
ToggleReminderTime ==
  /\ \E time \in reminderOptions :
       reminder_times' = toggleReminderTime(reminder_times, time)
  /\ UNCHANGED <<store, selectedEvent, isOpen, registration, registrationCount, loading,
                 pending, fetches, toast, refreshTrigger, eventDialog,
                 notificationSettings, auth>>

NextToggle == ToggleReminderTime

SpecToggle == Init /\ [][NextToggle]_vars

(***************************************************************************)
(* Properties.                                                             *)
(***************************************************************************)
RegisteredRows(id) == {r \in regs : r.event_id = id /\ r.status = "registered"}

EventAt(rows, id) == {e \in rows : e.id = id}

\* C1: an event with max_attendees = N never has more than N registered rows
\* when the registration attempts of EventDetails do not overlap.
C1_CapacityNeverExceeded ==
  \A e \in events :
    e.max_attendees # NoLimit => Cardinality(RegisteredRows(e.id)) <= e.max_attendees

\* C2: when handleRegister is about to insert for an event with a limit, the
\* count it compared is the number of registered rows the store holds for the
\* event, and that count is below the limit.
C2_CheckCountsEveryRow ==
  \A u \in Users :
    pending[u].op = "register" =>
      \A e \in EventAt(events, pending[u].ev) :
        e.max_attendees # NoLimit =>
          /\ registrationCount[u] = Cardinality(RegisteredRows(e.id))
          /\ registrationCount[u] < e.max_attendees

\* C3: with max_attendees = 1 and another user's registered row in the store,
\* a user who opens the event and has its fetch answered is refused: Register
\* is not offered, so no row is inserted for that user.
C3_SecondUserRefused ==
  \A u \in Users :
    ( /\ Shown(u) /\ Settled(u) /\ pending[u] = Idle
      /\ selectedEvent[u] \in events
      /\ selectedEvent[u].max_attendees = 1
      /\ selectedEvent[u].is_public
      /\ u # selectedEvent[u].created_by
      /\ \E r \in RegisteredRows(selectedEvent[u].id) : r.user_id # u )
    => ~RegisterOffered(u)

\* Two members between their capacity check and their insert for the same
\* event, which has one place left and holds a row of neither.
Racing(u, v) ==
  /\ u # v
  /\ pending[u].op = "register"
  /\ pending[v].op = "register"
  /\ pending[u].ev = pending[v].ev
  /\ \E e \in EventAt(events, pending[u].ev) :
       /\ e.max_attendees # NoLimit
       /\ Cardinality(RegisteredRows(e.id)) = e.max_attendees - 1
  /\ \A r \in regs : r.event_id = pending[u].ev => r.user_id \notin {u, v}

RowToInsert(u) ==
  [id |-> <<u, 0>>, event_id |-> pending[u].ev, user_id |-> u, status |-> "registered"]

\* C4: when two different users have both passed the capacity check for an
\* event with one place left, the store accepts the insert of one and then the
\* insert of the other, and the event then has more than max_attendees
\* registered rows.
C4_BothRacersAdmitted ==
  \A u \in Users, v \in Users :
    Racing(u, v) =>
      LET first == regs \cup {RowToInsert(u)}
          both == first \cup {RowToInsert(v)}
      IN /\ RegInsertError(u, regs, RowToInsert(u)) = "none"
         /\ RegInsertError(v, first, RowToInsert(v)) = "none"
         /\ \A e \in EventAt(events, pending[u].ev) :
              Cardinality({r \in both : r.event_id = e.id /\ r.status = "registered"})
                > e.max_attendees

C4_Witness == \E u \in Users, v \in Users : Racing(u, v)

\* C5: a caller who is not the creator of an event with is_public = false does
\* not get that row from a read of events.
C5_PrivateEventsHidden ==
  \A u \in Users, e \in events :
    (e.is_public = FALSE /\ u # e.created_by) => e \notin SelectEvents(u)

C5_Witness ==
  \E u \in Users, e \in events :
    /\ e.is_public = FALSE
    /\ u # e.created_by
    /\ SelectEvents(u) # {}
    /\ e \in SelectEvents(e.created_by)

\* C6: a step that inserts, changes or removes an events row is a request of
\* the caller that the row names in created_by, before the step and after it.
C6_OnlyCreatorWrites ==
  [][\A id \in EventIds :
       EventAt(events, id) # EventAt(events', id) =>
         \A e \in EventAt(events, id) \cup EventAt(events', id) :
           e.created_by = resp'.actor]_vars

C6_Witness ==
  /\ Cardinality(events) = Cardinality(EventIds)
  /\ resp.op = "delete_event"
  /\ \A e \in events : e.created_by # resp.actor

RegsPairUnique ==
  \A r1 \in regs, r2 \in regs :
    (r1.event_id = r2.event_id /\ r1.user_id = r2.user_id) => r1 = r2

\* C7: no two event_registrations rows share (event_id, user_id), and a write
\* rejected for the pair being taken leaves the table as it was.
C7_OneRowPerPair ==
  /\ []RegsPairUnique
  /\ [][resp'.err = "unique" => regs' = regs]_vars

C7_Witness ==
  /\ resp.op = "insert_reg"
  /\ resp.err = "unique"
  /\ \E r \in regs : r.user_id = resp.actor

Touched == (regs \cup regs') \ (regs \cap regs')

\* C8 as stated: every step that inserts, changes or removes a registration
\* is a request of the caller named in the row's user_id.
C8_OnlyOwnRegistrations ==
  [][\A r \in Touched : r.user_id = resp'.actor]_vars

\* C8 amended: a write to event_registrations touches only rows whose user_id
\* is the caller; the one other way a registration goes is with its event,
\* deleted by the event's creator.
C8_OwnRowsOrCascade ==
  [][\A r \in Touched :
       \/ /\ resp'.op \in {"insert_reg", "update_reg", "delete_reg"}
          /\ r.user_id = resp'.actor
       \/ /\ resp'.op = "delete_event"
          /\ r \in regs
          /\ \E e \in events \ events' :
               e.id = r.event_id /\ e.created_by = resp'.actor]_vars

C8_Witness ==
  /\ resp.op = "insert_reg"
  /\ resp.err = "rls"
  /\ \E e \in events : e.created_by = resp.actor
  /\ \E r \in regs : r.user_id # resp.actor

\* C9: a read of event_registrations returns the caller's own rows and the
\* rows of the events the caller created, and no other row.
C9_ReadsOwnAndCreated ==
  \A u \in Users :
    SelectRegs(u) =
      {r \in regs : \/ r.user_id = u
                    \/ \E e \in events : e.id = r.event_id /\ e.created_by = u}

C9_Witness ==
  \E r \in regs, u \in Users, v \in Users :
    /\ u # r.user_id
    /\ r \in SelectRegs(u)
    /\ r \notin SelectRegs(v)
    /\ \E e \in events : e.id = r.event_id /\ e.is_public = FALSE

\* C10: every identity that exists has exactly one profiles row.
C10_OneProfilePerIdentity ==
  \A u \in users : Cardinality({p \in profiles : p.user_id = u}) = 1

C10_Witness ==
  /\ users = Users
  /\ resp.op = "delete_profile"
  /\ \E p \in profiles : p.prefs # DefaultPrefs

ProfilesTouched == (profiles \cup profiles') \ (profiles \cap profiles')

\* C11: a read of profiles returns only rows whose user_id is the caller, and
\* every profiles row that a caller's insert, update or delete writes, changes
\* or removes has the caller as its user_id.
C11_OwnProfileOnly ==
  /\ [](\A u \in Users : \A p \in SelectProfiles(u) : p.user_id = u)
  /\ [][resp'.op \in {"insert_profile", "update_profile", "delete_profile"} =>
          \A p \in ProfilesTouched : p.user_id = resp'.actor]_vars

C11_Witness ==
  /\ resp.op = "update_profile"
  /\ resp.err = "rls"
  /\ \E p \in profiles : p.user_id # resp.actor /\ p.prefs # DefaultPrefs
  /\ SelectProfiles(resp.actor) # {}

\* C12: a read of event_notifications returns the rows whose user_id is the
\* caller and no other; an insert is never refused by the policy, whoever
\* the caller and whoever the row is for, and is accepted whenever the row
\* meets the column check and the foreign keys.
C12_ReadOwnInsertAny ==
  /\ \A u \in Users \cup {Anon} : SelectNotifs(u) = {n \in notifs : n.user_id = u}
  /\ \A uid \in Callers, row \in NotifRows :
       /\ NotifInsertError(uid, row) # "rls"
       /\ (NotifsTypeOk(row) /\ NotifsFkOk(row)) => NotifInsertError(uid, row) = "none"

C12_Witness ==
  /\ resp.op = "insert_notif"
  /\ resp.err = "none"
  /\ resp.actor = Anon
  /\ Cardinality(notifs) = MaxNotifs
  /\ \E n \in notifs : n.user_id = "a" /\ SelectNotifs("b") # {} /\ n \notin SelectNotifs("b")

\* A request on event_registrations or events that its table's policy does not
\* allow: an insert of a row that fails WITH CHECK, an update or a delete that
\* names a row that fails USING.
ForbiddenWrite ==
  \/ \E uid \in Users, row \in RegRows :
       ~RegsInsertCheck(uid, row) /\ InsertRegistration(uid, row) /\ UNCHANGED client
  \/ \E uid \in Users, r \in regs, row \in RegRows :
       ~RegsUpdateUsing(uid, r) /\ UpdateRegistration(uid, r.id, row) /\ UNCHANGED client
  \/ \E uid \in Users, r \in regs :
       ~RegsDeleteUsing(uid, r) /\ DeleteRegistration(uid, r.id) /\ UNCHANGED client
  \/ \E uid \in Users, e \in events :
       ~EventsDeleteUsing(uid, e) /\ DeleteEvent(uid, e.id) /\ UNCHANGED client

\* C13: a write that violates its table's policy leaves every table as it was
\* and is answered with a policy-violation error.
C13_ForbiddenWriteRefused ==
  [][ForbiddenWrite =>
       /\ UNCHANGED <<users, profiles, events, regs, notifs>>
       /\ resp'.err = "rls"]_vars

References(row) ==
  /\ \E e \in events : e.id = row.event_id
  /\ row.user_id \in users

\* C14: every event_registrations and event_notifications row references an
\* event and an identity that exist, every event and profile an identity that
\* exists; the step that removes an event or an identity removes the rows
\* that referenced it.
C14_NoDanglingReference ==
  /\ [](/\ \A r \in regs : References(r)
        /\ \A n \in notifs : References(n)
        /\ \A e \in events : e.created_by \in users
        /\ \A p \in profiles : p.user_id \in users)
  /\ [][/\ \A e \in events \ events' :
             /\ \A r \in regs' : r.event_id # e.id
             /\ \A n \in notifs' : n.event_id # e.id
        /\ \A u \in users \ users' :
             /\ \A e \in events' : e.created_by # u
             /\ \A r \in regs' : r.user_id # u
             /\ \A n \in notifs' : n.user_id # u
             /\ \A p \in profiles' : p.user_id # u]_vars

\* An event has just been deleted with a's first registration, while a later
\* registration of a and a notification remain.
C14_Witness ==
  /\ resp.op = "delete_event"
  /\ \E r \in regs : r.id = <<"a", 2>>
  /\ \A r \in regs : r.id # <<"a", 1>>
  /\ notifs # {}
  /\ users = Users

\* C15: an update of an events row or of a profiles row leaves the row's
\* updated_at equal to the store's clock, and later than it was before.
C15_UpdatedAtAdvances ==
  [][/\ resp'.op = "update_event" =>
          \A old \in events, new \in events' :
            (old.id = new.id /\ old # new) =>
              new.updated_at = now /\ new.updated_at > old.updated_at
     /\ resp'.op = "update_profile" =>
          \A old \in profiles, new \in profiles' :
            (old.user_id = new.user_id /\ old # new) =>
              new.updated_at = now /\ new.updated_at > old.updated_at]_vars

\* The steps in which a handler of u's session gets the answer to its write:
\* one of EventDetails, EventDialog's, NotificationSettings'.
AnsweredDetails(u) == pending[u] # Idle /\ pending'[u] = Idle

AnsweredDialog(u) == eventDialog[u].submitting /\ ~eventDialog'[u].submitting

AnsweredSettings(u) == notificationSettings[u].saving /\ ~notificationSettings'[u].saving

\* C16: when the write of handleRegister, handleUnregister, handleDeleteEvent,
\* EventDialog.handleSubmit or NotificationSettings.handleSave fails, the
\* error toast is shown, nothing is written and nothing is re-fetched, no
\* dialog is closed, refreshTrigger, registration, registrationCount, the
\* form and the preferences are as they were, the handler has no request
\* left in flight and its component's loading is false.
C16_FailedWriteChangesNothing ==
  [][\A u \in Users :
       ((AnsweredDetails(u) \/ AnsweredDialog(u) \/ AnsweredSettings(u))
          /\ resp'.err # "none") =>
         /\ toast' = [user |-> u, variant |-> "destructive"]
         /\ UNCHANGED <<users, profiles, events, regs, notifs>>
         /\ UNCHANGED <<fetches, selectedEvent, isOpen, registration, registrationCount,
                        refreshTrigger>>
         /\ eventDialog'[u].isOpen = eventDialog[u].isOpen
         /\ eventDialog'[u].event = eventDialog[u].event
         /\ eventDialog'[u].formData = eventDialog[u].formData
         /\ notificationSettings'[u].isOpen = notificationSettings[u].isOpen
         /\ notificationSettings'[u].preferences = notificationSettings[u].preferences
         /\ AnsweredDetails(u) =>
              /\ ~loading'[u]
              /\ UNCHANGED <<eventDialog, notificationSettings>>
         /\ AnsweredDialog(u) =>
              /\ ~eventDialog'[u].loading
              /\ UNCHANGED <<pending, loading, notificationSettings>>
         /\ AnsweredSettings(u) =>
              /\ ~notificationSettings'[u].loading
              /\ UNCHANGED <<pending, loading, eventDialog>>]_vars

\* c's update of the event it edits has just failed: the dialog is still open
\* on the form as c changed it.
C16_Witness ==
  /\ resp.op = "update_event"
  /\ resp.err = "transport"
  /\ toast = [user |-> "c", variant |-> "destructive"]
  /\ eventDialog["c"].isOpen
  /\ ~eventDialog["c"].loading
  /\ eventDialog["c"].event \in events
  /\ eventDialog["c"].formData # FormOf(eventDialog["c"].event)
  /\ regs # {}

\* C17: an EventDetails has a write in flight exactly while its loading is
\* true, and while it is true none of handleRegister, handleUnregister and
\* handleDeleteEvent can be started.
C17_OneWriteInFlight ==
  \A u \in Users :
    /\ loading[u] <=> pending[u] # Idle
    /\ loading[u] =>
         /\ ~ENABLED handleRegister(u)
         /\ ~ENABLED handleUnregister(u)
         /\ ~ENABLED handleDeleteEvent(u)

\* a's second insert is in flight while its dialog shows the Unregister
\* button.
C17_Witness ==
  /\ loading["a"]
  /\ pending["a"].op = "register"
  /\ Shown("a")
  /\ canUnregister("a")

\* What the two queries of fetchRegistrationInfo return for caller u and
\* event id in the present state of the store.
StoredRegistration(u, id) ==
  LET rows == {r \in SelectRegs(u) : /\ r.event_id = id
                                     /\ r.user_id = u
                                     /\ r.status = "registered"}
  IN IF Cardinality(rows) = 1 THEN CHOOSE r \in rows : TRUE ELSE NoReg

StoredCount(u, id) ==
  Cardinality({r \in SelectRegs(u) : r.event_id = id /\ r.status = "registered"})

\* C18: when an EventDetails is shown with every fetchRegistrationInfo
\* answered and no write in flight, its registration and registrationCount
\* are what the store holds for the displayed event and the caller.
C18_DisplayedIsCurrent ==
  \A u \in Users :
    (Shown(u) /\ Settled(u) /\ \A v \in Users : pending[v] = Idle) =>
      /\ registration[u] = StoredRegistration(u, selectedEvent[u].id)
      /\ registrationCount[u] = StoredCount(u, selectedEvent[u].id)

\* C19: an event_notifications row is the same in every state in which it
\* exists (sent_at included); an update or a delete sent to the table leaves
\* it as it was; and a step of the client never adds or changes a row: the
\* one thing it does to the table is to remove the rows of an event that its
\* creator deletes.
C19_NotificationsNeverChange ==
  /\ [][\A n \in notifs, m \in notifs' : n.id = m.id => m = n]_vars
  /\ [][resp'.op \in {"update_notif", "delete_notif"} => notifs' = notifs]_vars
  /\ [][client' # client =>
          /\ notifs' \subseteq notifs
          /\ notifs' # notifs =>
               /\ resp'.op = "delete_event"
               /\ \A n \in notifs \ notifs' : \A e \in events' : e.id # n.event_id]_vars

\* a has just asked to update one of its own rows, whose sent_at is still
\* null, after c has saved, deleted and saved events through the client.
C19_Witness ==
  /\ resp.op = "update_notif"
  /\ resp.actor = "a"
  /\ Cardinality(notifs) = MaxNotifs
  /\ \A n \in notifs : n.user_id = "a" /\ n.sent_at = NoTime
  /\ refreshTrigger["c"] = MaxRefresh

\* An insert or an update of event_registrations, allowed by the table's
\* policies and naming an event that exists, whose row carries a status other
\* than the three.
InvalidStatusWrite ==
  \/ \E uid \in Users, row \in StatusRows :
       /\ row.status \notin Statuses
       /\ RegsFkOk(row)
       /\ RegsInsertCheck(uid, row)
       /\ InsertRegistration(uid, row)
       /\ UNCHANGED client
  \/ \E uid \in Users, r \in regs, row \in StatusRows :
       /\ row.status \notin Statuses
       /\ RegsUpdateUsing(uid, r)
       /\ RegsUpdateCheck(uid, row)
       /\ UpdateRegistration(uid, r.id, row)
       /\ UNCHANGED client

\* C20: every event_registrations row has one of the three statuses, and an
\* insert or update that carries any other status is refused with a
\* constraint violation and leaves the table as it was.
C20_StatusAlwaysValid ==
  /\ [](\A r \in regs : r.status \in Statuses)
  /\ [][InvalidStatusWrite => (regs' = regs /\ resp'.err = "check")]_vars

\* C21: the delete of a handleUnregister that was invoked with event e
\* displayed removes only rows whose event_id is e and whose user_id is the
\* caller.
C21_UnregisterDisplayedEventOnly ==
  [][\A u \in Users :
       (pending[u].op = "unregister" /\ pending'[u] = Idle) =>
         \A r \in regs \ regs' : r.event_id = pending[u].ev /\ r.user_id = u]_vars

\* C22: handleRegister can be started only with registration null, the
\* displayed event public and the caller not its creator; and the row that a
\* handleRegister inserts is never for an event that the caller created or
\* that is not public.
C22_RegisterOnlyPublicNotOwn ==
  /\ [](\A u \in Users :
          ENABLED handleRegister(u) =>
            /\ registration[u] = NoReg
            /\ selectedEvent[u].is_public
            /\ u # selectedEvent[u].created_by)
  /\ [][\A u \in Users :
          (pending[u].op = "register" /\ pending'[u] = Idle) =>
            \A r \in regs' \ regs : \A e \in events :
              e.id = r.event_id => (e.created_by # r.user_id /\ e.is_public)]_vars

\* C23: in Index, user is the user of session, or null when session is null;
\* each delivery (a call of the callback of onAuthStateChange, the
\* resolution of getSession) leaves session the one delivered and loading
\* false; loading never becomes true again; and the calendar is rendered only
\* with a user.
C23_UserFollowsSession ==
  /\ [](/\ auth.session = NoSession => auth.user = NoUser
        /\ auth.session # NoSession => auth.user = auth.session.user
        /\ Rendered = "calendar" => auth.user # NoUser)
  /\ [][/\ \A session \in auth.callbacks :
             auth'.callbacks = auth.callbacks \ {session} =>
               (auth'.session = session /\ ~auth'.loading)
        /\ (auth.getSession.stage = "read" /\ auth'.getSession.stage = "done") =>
             (auth'.session = auth.getSession.value /\ ~auth'.loading)
        /\ ~auth.loading => ~auth'.loading]_vars

\* a signed in and its token was refreshed; everything has been delivered,
\* the resolution of getSession included, and the calendar is rendered.
C23_Witness ==
  /\ auth.getSession.stage = "done"
  /\ auth.callbacks = {}
  /\ auth.current = [user |-> "a", gen |-> MaxSessions]
  /\ auth.session = auth.current
  /\ Rendered = "calendar"

Elements(list) == {list[i] : i \in 1..Len(list)}

\* C24: reminder_times stays sorted in descending order without duplicates;
\* toggleReminderTime(t) removes t when it is there and adds it when it is
\* not, leaving the other times; and two toggles of the same t give the list
\* back.
C24_ToggleKeepsSortedSet ==
  /\ \A i \in 1..Len(reminder_times), j \in 1..Len(reminder_times) :
       i < j => reminder_times[i] > reminder_times[j]
  /\ \A t \in reminderOptions :
       LET once == toggleReminderTime(reminder_times, t)
       IN /\ Elements(once) = IF t \in Elements(reminder_times)
                              THEN Elements(reminder_times) \ {t}
                              ELSE Elements(reminder_times) \cup {t}
          /\ Len(once) = Cardinality(Elements(once))
          /\ toggleReminderTime(once, t) = reminder_times

\* One of the two default times has been switched off and three others on,
\* the smallest and the largest among them.
C24_Witness ==
  /\ Len(reminder_times) = 4
  /\ reminder_times[1] = 672
  /\ reminder_times[4] = 1
  /\ 96 \in Elements(reminder_times)
  /\ 4 \notin Elements(reminder_times)

====
